---- MODULE Spec2Model ----
(***************************************************************************)
(* A model of the option-data pipeline: the risk-free rate cache and its   *)
(* interpolation (convert_to_df.RiskFreeRates), the dividend cache         *)
(* (convert_to_df.DividendDates), the densified quote grid and its         *)
(* enrichment (convert_to_df.transform_to_training_data,                   *)
(* option_data_to_polars) and the ingestion planner                        *)
(* (sql_request_data.filter_option_tables, process_option_data).           *)
(*                                                                         *)
(* Conventions.                                                            *)
(*  - A calendar date is the number of days since 2025-01-01 (an integer,  *)
(*    negative before it); a timestamp is <<date, hour>>.                  *)
(*  - A rate is an integer number of thousandths of a percent (4.30 is     *)
(*    4300), so that round(x, 3) is rounding to the nearest integer.       *)
(*  - A name (database, table, file) is a sequence of one-character        *)
(*    strings, so that split, rstrip and substring tests are computed.     *)
(*  - A raised Python exception is a record [kind |-> <exception name>].   *)
(***************************************************************************)
EXTENDS Integers, Sequences, FiniteSets, TLC

VARIABLES
    \* ---- convert_to_df.RiskFreeRates / DividendDates (class-level state)
    imported_rates,   \* RiskFreeRates.imported_rates: year -> parsed payload
    rate_table,       \* RiskFreeRates.rate_table: date -> (tenor -> rate)
    div_date_data,    \* DividendDates.div_date_data: symbol -> event list
    \* ---- the callers of the two caches
    pc,               \* per work item: the statement it is about to execute
    arg,              \* per work item: the arguments of its current call
    data,             \* per work item: the local `data` of a fetch in flight
    ret,              \* per work item: what its last call returned or raised
    calls,            \* number of calls started so far
    year_fetches,     \* year -> number of requests.get calls made for it
    div_fetches,      \* symbol -> number of requests.get calls made for it
    rate_source,      \* the treasury service: year -> payload it answers with
    \* ---- convert_to_df.option_data_to_polars
    output_type,      \* DataCreationConfig.OUTPUT_TYPE
    option_data,      \* OptionData.data: the rows fetched for one table
    underlying_prices,\* the underlying's frame: rows of (date, h, l, o, c)
    div_history,      \* what DividendDates.get_divs answers for the symbol
    grid,             \* full_index.join(df): the densified grid
    result,           \* what option_data_to_polars returned or raised
    phase,            \* "input" before the call, "done" after it
    \* ---- sql_request_data.controller
    sql_server,       \* the catalog: sequence of <<database, tables>>
    source_rows,      \* (database, table) -> what get_option_data yields
    files,            \* the export directory: set of <<root, file name>>
    plan,             \* filter_option_tables' option dict, in key order
    stk_plan,         \* filter_option_tables' stock dict, in key order
    stk_dfs,          \* process_stock_data's result: symbols with a frame
    cursor,           \* process_option_data: index of the next work item
    step,             \* the controller's position
    run,              \* number of the pipeline run (1 = first)
    written,          \* tables whose artifact write_df_to_file wrote completely
    skipped,          \* tables process_option_data skipped in any run
    aborts            \* number of runs that were killed before their end

rateVars == <<imported_rates, rate_table, div_date_data, pc, arg, data, ret,
              calls, year_fetches, div_fetches, rate_source>>
gridVars == <<output_type, option_data, underlying_prices, div_history, grid,
              result, phase>>
planVars == <<sql_server, source_rows, files, plan, stk_plan, stk_dfs, cursor,
              step, run, written, skipped, aborts>>
vars == <<rateVars, gridVars, planVars>>

-----------------------------------------------------------------------------
(* Bounds of the model *)

\* Calls a run of the cache model makes before it stops.
MaxCalls == 3

\* Work items that may call the caches concurrently.
NumWorkers == 2

-----------------------------------------------------------------------------
(* Generic helpers *)

Max(S) == CHOOSE x \in S : \A y \in S : y <= x

Min(S) == CHOOSE x \in S : \A y \in S : x <= y

Range(s) == {s[i] : i \in 1..Len(s)}

\* The function f extended (or overwritten) at key k: Python's d[k] = v.
Put(f, k, v) == [x \in DOMAIN f \cup {k} |-> IF x = k THEN v ELSE f[x]]

EmptyMap == [x \in {} |-> 0]

-----------------------------------------------------------------------------
(* convert_to_df.RiskFreeRates *)

\* The tenor keys create_rate_table writes (lines 48-54).
Tenors == {30, 60, 90, 180, 360, 720, 1080}

\* date.year of a date given in days since 2025-01-01.
Year(d) ==
    IF d < -366 THEN 2023
    ELSE IF d < 0 THEN 2024
    ELSE IF d < 365 THEN 2025
    ELSE IF d < 730 THEN 2026
    ELSE 2027

\* round(x, 3) of the float nearest num/den (den > 0), in thousandths: the
\* nearest integer.  On an exact tie the float's own rounding error decides,
\* so both neighbours are possible.
Round3(num, den) ==
    LET q == num \div den
        r == num - q * den
    IN  IF 2 * r < den THEN {q}
        ELSE IF 2 * r > den THEN {q + 1}
        ELSE {q, q + 1}

\* An entry of a year payload is [date, rates], rates the tenor buckets it
\* holds; the optional field `bad` names the buckets whose text is no number.
NonNumeric(row) == IF "bad" \in DOMAIN row THEN row.bad ELSE {}

\* The buckets of an entry on which one of lines 48-54 raises: row[...] has
\* no such bucket (KeyError) or float() rejects its text (ValueError).
FailingTenors(row) == (Tenors \ DOMAIN row.rates) \cup NonNumeric(row)

\* What lines 48-54 raise on an entry: the assignments run in ascending tenor
\* order, so the first failing bucket decides.
RowRaises(row) ==
    IF FailingTenors(row) = {} THEN "none"
    ELSE IF Min(FailingTenors(row)) \notin DOMAIN row.rates THEN "KeyError"
    ELSE "ValueError"

\* The tenor keys lines 48-54 assign for an entry before they raise (all
\* seven when they do not).
AssignedTenors(row) ==
    IF FailingTenors(row) = {} THEN Tenors
    ELSE {t \in Tenors : t < Min(FailingTenors(row))}

\* create_rate_table's loop (lines 45-54): every entry of the year payload
\* overwrites the seven tenor keys of rate_table[date_var] in turn; the loop
\* ends at the first assignment that raises, and what was assigned stays.
RECURSIVE BuildCurve(_, _)
BuildCurve(entries, curve) ==
    IF entries = <<>> THEN curve
    ELSE LET row == Head(entries)
             assigned == [t \in DOMAIN curve \cup AssignedTenors(row) |->
                            IF t \in AssignedTenors(row) THEN row.rates[t]
                            ELSE curve[t]]
         IN  IF RowRaises(row) # "none" THEN assigned
             ELSE BuildCurve(Tail(entries), assigned)

\* What create_rate_table's loop raises on a payload: "none", or the
\* exception of its first failing entry.
RECURSIVE CreateRaises(_)
CreateRaises(entries) ==
    IF entries = <<>> THEN "none"
    ELSE IF RowRaises(Head(entries)) # "none" THEN RowRaises(Head(entries))
    ELSE CreateRaises(Tail(entries))

\* rate_table after create_rate_table's second half (lines 44-54).  The test
\* `datetime.date not in cls.rate_table` asks for a class object that is
\* never a key, so the loop always runs; rate_table is a defaultdict, so the
\* key appears with the first assignment that completes (the right-hand
\* side is evaluated before rate_table[date_var] is).
CreateRateTable(rt, payload, date_var) ==
    LET curve == BuildCurve(payload, IF date_var \in DOMAIN rt THEN rt[date_var]
                                     ELSE EmptyMap)
    IN  IF date_var \notin DOMAIN rt /\ DOMAIN curve = {} THEN rt
        ELSE Put(rt, date_var, curve)

NextSmallerLE(keys, day_range) ==
    Max({x \in keys : x <= Max({day_range, Min(keys)})})

\* Line 64 takes max(), not min(), of the tenors at or above the day range.
NextLargerGE(keys, day_range) ==
    Max({x \in keys : x >= Min({day_range, Max(keys)})})

\* calculate_rate (lines 57-74) on the curve cached for timestamp_date: the
\* set of outcomes (one, or two on a rounding tie).
CalculateRate(curve, day_range) ==
    LET keys == DOMAIN curve IN
    IF keys = {} THEN {[kind |-> "ValueError"]}
    ELSE
      LET next_smaller == NextSmallerLE(keys, day_range)
          next_larger == NextLargerGE(keys, day_range)
          next_smaller_rate == curve[next_smaller]
          next_lager_rate == curve[next_larger]
      IN  IF next_larger - next_smaller = 0
          THEN {[kind |-> "ZeroDivisionError"]}
          ELSE {[kind |-> "rate", value |-> v] :
                  v \in Round3(next_smaller_rate * (next_larger - next_smaller)
                                 + day_range * (next_lager_rate - next_smaller_rate),
                               next_larger - next_smaller)}

-----------------------------------------------------------------------------
(* The rate and dividend sources, and the callers of the two caches *)

Workers == 1..NumWorkers

SymAAPL == <<"A", "A", "P", "L">>

SymMSFT == <<"M", "S", "F", "T">>

Symbols == {SymAAPL, SymMSFT}

\* As-of dates the callers ask for: 2024-12-31 and 2025-01-01.
AsOfDates == {-1, 0}

\* Expiry dates: before the as-of date, below the first tenor, between
\* tenors (2025-02-15), on a tenor, on the last tenor, beyond the last tenor.
ExpiryDates == {-5, 20, 45, 60, 1080, 1100}

CurveA == [t \in Tenors |->
            CASE t = 30 -> 4300 [] t = 60 -> 4280 [] t = 90 -> 4250
              [] t = 180 -> 4200 [] t = 360 -> 4100 [] t = 720 -> 4000
              [] OTHER -> 3900]

CurveB == [t \in Tenors |-> 4000 + t \div 10]

\* Year payloads the treasury service may answer with: a list of entries,
\* each the seven tenor buckets of one business day.
PayloadPool ==
    { <<[date |-> 0, rates |-> CurveA]>>,
      <<[date |-> -1, rates |-> CurveB], [date |-> 0, rates |-> CurveA]>>,
      <<[date |-> 0, rates |-> CurveA], [date |-> 1, rates |-> CurveB]>> }

\* What the dividend service answers for a symbol after request_div_dates'
\* normalisation (lines 92-96): events of (date, dividend in cents).
DivPayload(symbol) ==
    IF symbol = SymAAPL THEN <<[date |-> 0, dividend |-> 25]>>
    ELSE <<[date |-> -1, dividend |-> 75], [date |-> 0, dividend |-> 80]>>

\* The answer of a treasury service that cannot be reached: requests.get
\* raises (line 34) instead of returning a payload.
Unreachable == <<[kind |-> "ConnectionError"]>>

Idle == [kind |-> "none"]

\* A caller starts RiskFreeRates.get_rate_at_date(timestamp_date, expiry_date).
CallGetRate(w, expiries) ==
    /\ pc[w] = "idle"
    /\ calls < MaxCalls
    /\ \E ts \in AsOfDates, ex \in expiries :
         arg' = [arg EXCEPT ![w] = [timestamp_date |-> ts, expiry_date |-> ex]]
    /\ pc' = [pc EXCEPT ![w] = "get_rate_at_date"]
    /\ calls' = calls + 1
    /\ ret' = [ret EXCEPT ![w] = Idle]
    /\ UNCHANGED <<gridVars, planVars, imported_rates, rate_table, div_date_data, data,
                   year_fetches, div_fetches, rate_source>>

\* get_rate_at_date, line 78: is the date already in rate_table?
RateTableCheck(w) ==
    /\ pc[w] = "get_rate_at_date"
    /\ pc' = [pc EXCEPT ![w] =
                IF arg[w].timestamp_date \notin DOMAIN rate_table
                THEN "create_rate_table" ELSE "calculate_rate"]
    /\ UNCHANGED <<gridVars, planVars, imported_rates, rate_table, div_date_data, arg, data, ret,
                   calls, year_fetches, div_fetches, rate_source>>

\* create_rate_table, line 41: is the year already in imported_rates?
YearCheck(w) ==
    /\ pc[w] = "create_rate_table"
    /\ pc' = [pc EXCEPT ![w] =
                IF Year(arg[w].timestamp_date) \notin DOMAIN imported_rates
                THEN "load_raw_risk_free_rates" ELSE "build_rate_table"]
    /\ UNCHANGED <<gridVars, planVars, imported_rates, rate_table, div_date_data, arg, data, ret,
                   calls, year_fetches, div_fetches, rate_source>>

\* load_raw_risk_free_rates, line 34: the blocking requests.get for the
\* year; its exception leaves get_rate_at_date.
LoadRequest(w) ==
    /\ pc[w] = "load_raw_risk_free_rates"
    /\ LET year == Year(arg[w].timestamp_date) IN
         /\ year_fetches' = [year_fetches EXCEPT ![year] = @ + 1]
         /\ IF rate_source[year] = Unreachable
            THEN /\ ret' = [ret EXCEPT ![w] = [kind |-> "ConnectionError"]]
                 /\ pc' = [pc EXCEPT ![w] = "idle"]
                 /\ UNCHANGED data
            ELSE /\ data' = [data EXCEPT ![w] = rate_source[year]]
                 /\ pc' = [pc EXCEPT ![w] = "store_imported_rates"]
                 /\ UNCHANGED ret
    /\ UNCHANGED <<gridVars, planVars, imported_rates, rate_table, div_date_data, arg, calls,
                   div_fetches, rate_source>>

\* load_raw_risk_free_rates, line 36: the parsed payload is cached by year.
LoadStore(w) ==
    /\ pc[w] = "store_imported_rates"
    /\ imported_rates' = Put(imported_rates, Year(arg[w].timestamp_date), data[w])
    /\ data' = [data EXCEPT ![w] = <<>>]
    /\ pc' = [pc EXCEPT ![w] = "build_rate_table"]
    /\ UNCHANGED <<gridVars, planVars, rate_table, div_date_data, arg, ret, calls, year_fetches,
                   div_fetches, rate_source>>

\* create_rate_table, lines 44-54: the curve of the date is built and
\* cached; an exception of the loop leaves get_rate_at_date.
BuildRateTable(w) ==
    /\ pc[w] = "build_rate_table"
    /\ LET payload == imported_rates[Year(arg[w].timestamp_date)] IN
         /\ rate_table' = CreateRateTable(rate_table, payload,
                                          arg[w].timestamp_date)
         /\ IF CreateRaises(payload) # "none"
            THEN /\ ret' = [ret EXCEPT ![w] = [kind |-> CreateRaises(payload)]]
                 /\ pc' = [pc EXCEPT ![w] = "idle"]
            ELSE /\ pc' = [pc EXCEPT ![w] = "calculate_rate"]
                 /\ UNCHANGED ret
    /\ UNCHANGED <<gridVars, planVars, imported_rates, div_date_data, arg, data, calls,
                   year_fetches, div_fetches, rate_source>>

\* get_rate_at_date, line 81: calculate_rate returns or raises.  Reading
\* rate_table[timestamp_date] inserts an empty curve for a missing date
\* (rate_table is a defaultdict).
ReturnRate(w) ==
    /\ pc[w] = "calculate_rate"
    /\ LET ts == arg[w].timestamp_date
           rt == IF ts \in DOMAIN rate_table THEN rate_table
                 ELSE Put(rate_table, ts, EmptyMap)
       IN  /\ rate_table' = rt
           /\ \E out \in CalculateRate(rt[ts], arg[w].expiry_date - ts) :
                ret' = [ret EXCEPT ![w] = out]
    /\ pc' = [pc EXCEPT ![w] = "idle"]
    /\ UNCHANGED <<gridVars, planVars, imported_rates, div_date_data, arg, data, calls,
                   year_fetches, div_fetches, rate_source>>

\* A caller starts DividendDates.get_divs(symbol).
CallGetDivs(w) ==
    /\ pc[w] = "idle"
    /\ calls < MaxCalls
    /\ \E s \in Symbols : arg' = [arg EXCEPT ![w] = [symbol |-> s]]
    /\ pc' = [pc EXCEPT ![w] = "get_divs"]
    /\ calls' = calls + 1
    /\ ret' = [ret EXCEPT ![w] = Idle]
    /\ UNCHANGED <<gridVars, planVars, imported_rates, rate_table, div_date_data, data,
                   year_fetches, div_fetches, rate_source>>

\* get_divs, line 102: is the symbol already in div_date_data?
DivCheck(w) ==
    /\ pc[w] = "get_divs"
    /\ pc' = [pc EXCEPT ![w] =
                IF arg[w].symbol \notin DOMAIN div_date_data
                THEN "request_div_dates" ELSE "return_divs"]
    /\ UNCHANGED <<gridVars, planVars, imported_rates, rate_table, div_date_data, arg, data, ret,
                   calls, year_fetches, div_fetches, rate_source>>

\* request_div_dates, lines 89-96: the blocking requests.get for the symbol
\* and the normalisation of its events.
DivRequest(w) ==
    /\ pc[w] = "request_div_dates"
    /\ data' = [data EXCEPT ![w] = DivPayload(arg[w].symbol)]
    /\ div_fetches' = [div_fetches EXCEPT ![arg[w].symbol] = @ + 1]
    /\ pc' = [pc EXCEPT ![w] = "store_div_dates"]
    /\ UNCHANGED <<gridVars, planVars, imported_rates, rate_table, div_date_data, arg, ret, calls,
                   year_fetches, rate_source>>

\* request_div_dates, line 98: the events are cached by symbol.
DivStore(w) ==
    /\ pc[w] = "store_div_dates"
    /\ div_date_data' = Put(div_date_data, arg[w].symbol, data[w])
    /\ data' = [data EXCEPT ![w] = <<>>]
    /\ pc' = [pc EXCEPT ![w] = "return_divs"]
    /\ UNCHANGED <<gridVars, planVars, imported_rates, rate_table, arg, ret, calls, year_fetches,
                   div_fetches, rate_source>>

\* get_divs, line 105.
ReturnDivs(w) ==
    /\ pc[w] = "return_divs"
    /\ ret' = [ret EXCEPT ![w] =
                 [kind |-> "divs", value |-> div_date_data[arg[w].symbol]]]
    /\ pc' = [pc EXCEPT ![w] = "idle"]
    /\ UNCHANGED <<gridVars, planVars, imported_rates, rate_table, div_date_data, arg, data,
                   calls, year_fetches, div_fetches, rate_source>>

SourceYears == {Year(d) : d \in AsOfDates}

InitCaches ==
    /\ imported_rates = EmptyMap
    /\ rate_table = EmptyMap
    /\ div_date_data = EmptyMap
    /\ pc = [w \in Workers |-> "idle"]
    /\ arg = [w \in Workers |-> [symbol |-> SymAAPL]]
    /\ data = [w \in Workers |-> <<>>]
    /\ ret = [w \in Workers |-> Idle]
    /\ calls = 0
    /\ year_fetches = [y \in SourceYears |-> 0]
    /\ div_fetches = [s \in Symbols |-> 0]

-----------------------------------------------------------------------------
(* The parts of the state a specification does not exercise stay as they    *)
(* are before their first use.                                              *)

InitGridOff ==
    /\ output_type = "TRAINING"
    /\ option_data = <<>>
    /\ underlying_prices = <<>>
    /\ div_history = <<>>
    /\ grid = <<>>
    /\ result = Idle
    /\ phase = "off"

InitPlanOff ==
    /\ sql_server = <<>>
    /\ source_rows = EmptyMap
    /\ files = {}
    /\ plan = <<>>
    /\ stk_plan = <<>>
    /\ stk_dfs = {}
    /\ cursor = 1
    /\ step = "off"
    /\ run = 0
    /\ written = {}
    /\ skipped = {}
    /\ aborts = 0

-----------------------------------------------------------------------------
(* SpecRate: the program as written, one caller at a time.                  *)

InitRate ==
    /\ InitCaches
    /\ rate_source \in [SourceYears -> PayloadPool]
    /\ InitGridOff
    /\ InitPlanOff

NextRate ==
    \/ CallGetRate(1, ExpiryDates)
    \/ RateTableCheck(1)
    \/ YearCheck(1)
    \/ LoadRequest(1)
    \/ LoadStore(1)
    \/ BuildRateTable(1)
    \/ ReturnRate(1)
    \/ CallGetDivs(1)
    \/ DivCheck(1)
    \/ DivRequest(1)
    \/ DivStore(1)
    \/ ReturnDivs(1)

SpecRate == InitRate /\ [][NextRate]_vars

(* SpecCache: the work items of section 5 of the specification, several     *)
(* callers whose statements interleave.                                     *)

InitCache ==
    /\ InitCaches
    /\ rate_source \in [SourceYears -> {CHOOSE p \in PayloadPool : Len(p) = 1}]
    /\ InitGridOff
    /\ InitPlanOff

NextCache ==
    \E w \in Workers :
      \/ CallGetRate(w, {45})
      \/ RateTableCheck(w)
      \/ YearCheck(w)
      \/ LoadRequest(w)
      \/ LoadStore(w)
      \/ BuildRateTable(w)
      \/ ReturnRate(w)
      \/ CallGetDivs(w)
      \/ DivCheck(w)
      \/ DivRequest(w)
      \/ DivStore(w)
      \/ ReturnDivs(w)

SpecCache == InitCache /\ [][NextCache]_vars

(* SpecBuild: one caller, a treasury service that may be out of reach or    *)
(* answer with entries that lack a bucket or carry text that is no number.  *)

\* Payloads on which load_raw_risk_free_rates or create_rate_table raises:
\* an entry without the 2-month bucket, a second entry whose 3-month bucket
\* is no number, an entry without the 1-month bucket, no answer at all.
FaultyPayloadPool ==
    { <<[date |-> 0, rates |-> [t \in Tenors \ {60} |-> CurveA[t]]]>>,
      <<[date |-> -1, rates |-> CurveB],
        [date |-> 0, rates |-> CurveA, bad |-> {90}]>>,
      <<[date |-> 0, rates |-> [t \in Tenors \ {30} |-> CurveA[t]]]>>,
      Unreachable }

InitBuild ==
    /\ InitCaches
    /\ rate_source \in [SourceYears ->
                           FaultyPayloadPool \cup {<<[date |-> 0, rates |-> CurveA]>>}]
    /\ InitGridOff
    /\ InitPlanOff

SpecBuild == InitBuild /\ [][NextRate]_vars

-----------------------------------------------------------------------------
(* Claims about the caches and the interpolation *)

\* C1: each year payload and each symbol's dividend history is fetched from
\* its source at most once, whatever the interleaving of the callers.
C1_SingleFetchPerKey ==
    /\ \A y \in DOMAIN year_fetches : year_fetches[y] <= 1
    /\ \A s \in DOMAIN div_fetches : div_fetches[s] <= 1

\* A finished get_rate_at_date call of caller w.
RateCallDone(w) ==
    /\ pc[w] = "idle"
    /\ ret[w] # Idle
    /\ "timestamp_date" \in DOMAIN arg[w]
    /\ arg[w].timestamp_date \in DOMAIN rate_table

DayRange(w) == arg[w].expiry_date - arg[w].timestamp_date

CurveOf(w) == rate_table[arg[w].timestamp_date]

\* C3: for a day range inside the curve, the result is the rate of the tenor
\* the day range equals, or else rate_lo + d * (rate_hi - rate_lo) /
\* (t_hi - t_lo) rounded to 3 decimals, where t_lo is the largest tenor <= d
\* and t_hi the smallest tenor >= d.
C3_BracketedInterpolation ==
    \A w \in Workers :
      (RateCallDone(w) /\ DOMAIN CurveOf(w) # {}) =>
        LET curve == CurveOf(w)
            keys == DOMAIN curve
            d == DayRange(w)
        IN  (Min(keys) <= d /\ d <= Max(keys)) =>
              LET t_lo == Max({t \in keys : t <= d})
                  t_hi == Min({t \in keys : t >= d})
              IN  IF t_lo = t_hi
                  THEN ret[w] = [kind |-> "rate", value |-> curve[t_lo]]
                  ELSE /\ ret[w].kind = "rate"
                       /\ ret[w].value \in
                            Round3(curve[t_lo] * (t_hi - t_lo)
                                     + d * (curve[t_hi] - curve[t_lo]),
                                   t_hi - t_lo)

\* C4: for a built curve and a (non-negative) day range below its first or
\* above its last tenor, calculate_rate raises nothing and returns a rate.
C4_OutOfRangeReturnsRate ==
    \A w \in Workers :
      (RateCallDone(w) /\ DOMAIN CurveOf(w) # {}) =>
        LET keys == DOMAIN CurveOf(w)
            d == DayRange(w)
        IN  (d >= 0 /\ (d < Min(keys) \/ d > Max(keys))) =>
              ret[w].kind = "rate"

\* C5: a call whose as-of date is after the expiry date raises an
\* invalid-input error and returns no rate.
C5_NegativeRangeRaises ==
    \A w \in Workers :
      (RateCallDone(w) /\ DayRange(w) < 0) => ret[w].kind = "InvalidInput"

\* The entries of a year payload are the business days of that year.
OwnYearPayload(year) ==
    \A i \in 1..Len(imported_rates[year]) :
      Year(imported_rates[year][i].date) = year

\* C12: the curve cached for an as-of date D holds the tenor rates of the
\* year payload's entry for D, not those of another date's entry.
C12_CurveOfItsOwnDate ==
    \A d \in DOMAIN rate_table :
      (Year(d) \in DOMAIN imported_rates /\ OwnYearPayload(Year(d))) =>
        \A i \in 1..Len(imported_rates[Year(d)]) :
          imported_rates[Year(d)][i].date = d =>
            rate_table[d] = imported_rates[Year(d)][i].rates

\* C14: a get_rate_at_date call that ends in load_raw_risk_free_rates or in
\* create_rate_table (the payload cannot be fetched, an entry lacks a bucket
\* or carries text that is no number) leaves no curve cached for its date.
C14_FailedBuildLeavesNoCurve ==
    [][\A w \in Workers :
         (pc[w] \in {"load_raw_risk_free_rates", "build_rate_table"}
            /\ pc'[w] = "idle") =>
           arg[w].timestamp_date \notin DOMAIN rate_table']_vars

-----------------------------------------------------------------------------
(* Names and dates: str.split, `in`, endswith, rstrip, datetime.strptime *)

\* str.split('_').
RECURSIVE SplitRec(_, _, _)
SplitRec(s, cur, acc) ==
    IF s = <<>> THEN Append(acc, cur)
    ELSE IF Head(s) = "_" THEN SplitRec(Tail(s), <<>>, Append(acc, cur))
    ELSE SplitRec(Tail(s), Append(cur, Head(s)), acc)

Split(s) == SplitRec(s, <<>>, <<>>)

\* `sub in s` for strings.
Contains(sub, s) ==
    \E i \in 1..(Len(s) - Len(sub) + 1) : SubSeq(s, i, i + Len(sub) - 1) = sub

\* s.endswith(suffix).
EndsWith(s, suffix) ==
    /\ Len(s) >= Len(suffix)
    /\ SubSeq(s, Len(s) - Len(suffix) + 1, Len(s)) = suffix

\* s.rstrip(chars): drops every trailing character that is in the set chars.
RECURSIVE RStrip(_, _)
RStrip(s, chars) ==
    IF s # <<>> /\ s[Len(s)] \in chars
    THEN RStrip(SubSeq(s, 1, Len(s) - 1), chars)
    ELSE s

Digits == <<"0", "1", "2", "3", "4", "5", "6", "7", "8", "9">>

IsDigit(c) == c \in Range(Digits)

DigitVal(c) == (CHOOSE i \in 1..10 : Digits[i] = c) - 1

LowerCase == <<"a", "b", "c", "d", "e", "f", "g", "h", "i", "j", "k", "l", "m",
               "n", "o", "p", "q", "r", "s", "t", "u", "v", "w", "x", "y", "z">>

UpperCase == <<"A", "B", "C", "D", "E", "F", "G", "H", "I", "J", "K", "L", "M",
               "N", "O", "P", "Q", "R", "S", "T", "U", "V", "W", "X", "Y", "Z">>

\* str.upper() of one character.
Upper(c) ==
    IF c \in Range(LowerCase)
    THEN UpperCase[CHOOSE i \in 1..26 : LowerCase[i] = c]
    ELSE c

UpperStr(s) == [i \in 1..Len(s) |-> Upper(s[i])]

MonthAbbr == << <<"J", "A", "N">>, <<"F", "E", "B">>, <<"M", "A", "R">>,
                <<"A", "P", "R">>, <<"M", "A", "Y">>, <<"J", "U", "N">>,
                <<"J", "U", "L">>, <<"A", "U", "G">>, <<"S", "E", "P">>,
                <<"O", "C", "T">>, <<"N", "O", "V">>, <<"D", "E", "C">> >>

IsLeap(y) == (y % 4 = 0 /\ y % 100 # 0) \/ y % 400 = 0

DaysInMonth(y, m) ==
    IF m = 2 THEN (IF IsLeap(y) THEN 29 ELSE 28)
    ELSE IF m \in {4, 6, 9, 11} THEN 30 ELSE 31

RECURSIVE DaysBeforeMonth(_, _)
DaysBeforeMonth(y, m) ==
    IF m = 1 THEN 0 ELSE DaysBeforeMonth(y, m - 1) + DaysInMonth(y, m - 1)

LeapYearsBefore(y) == (y - 1) \div 4 - (y - 1) \div 100 + (y - 1) \div 400

\* The date (y, m, d) in days since 2025-01-01.
DayOf(y, m, d) ==
    365 * (y - 2025) + LeapYearsBefore(y) - LeapYearsBefore(2025)
      + DaysBeforeMonth(y, m) + d - 1

\* strptime's %y: 00-68 are 2000-2068, 69-99 are 1969-1999.
TwoDigitYear(c1, c2) ==
    LET yy == 10 * DigitVal(c1) + DigitVal(c2)
    IN  IF yy <= 68 THEN 2000 + yy ELSE 1900 + yy

NoDate == [kind |-> "ValueError"]

\* datetime.strptime(s, '%b%y'): [kind |-> "date", day |-> ...] (the first
\* of the month) or ValueError.
ParseMonYY(s) ==
    IF /\ Len(s) = 5
       /\ UpperStr(SubSeq(s, 1, 3)) \in Range(MonthAbbr)
       /\ IsDigit(s[4]) /\ IsDigit(s[5])
    THEN [kind |-> "date",
          day |-> DayOf(TwoDigitYear(s[4], s[5]),
                        CHOOSE m \in 1..12 : MonthAbbr[m] = UpperStr(SubSeq(s, 1, 3)),
                        1)]
    ELSE NoDate

\* datetime.strptime(s, '%d%b%y'): one or two day digits, a month
\* abbreviation in any case, two year digits, and nothing else.
ParseDDMonYY(s) ==
    LET n == Len(s) - 5 IN
    IF /\ n \in {1, 2}
       /\ \A i \in 1..n : IsDigit(s[i])
       /\ ParseMonYY(SubSeq(s, n + 1, Len(s))) # NoDate
    THEN LET dd == IF n = 1 THEN DigitVal(s[1])
                   ELSE 10 * DigitVal(s[1]) + DigitVal(s[2])
             y == TwoDigitYear(s[Len(s) - 1], s[Len(s)])
             m == CHOOSE k \in 1..12 :
                    MonthAbbr[k] = UpperStr(SubSeq(s, n + 1, n + 3))
         IN  IF dd >= 1 /\ dd <= DaysInMonth(y, m)
             THEN [kind |-> "date", day |-> DayOf(y, m, dd)]
             ELSE NoDate
    ELSE NoDate

Us == <<"_">>

OPT == <<"O", "P", "T">>

-----------------------------------------------------------------------------
(* Frames: a polars DataFrame is a sequence of rows, a row a record.  A     *)
(* nullable cell is <<>> (null) or <<v>>.  Where polars leaves the row      *)
(* order open, the order of first occurrence is taken.                      *)

RECURSIVE UniqueRec(_, _)
UniqueRec(s, acc) ==
    IF s = <<>> THEN acc
    ELSE UniqueRec(Tail(s), IF Head(s) \in Range(acc) THEN acc
                            ELSE Append(acc, Head(s)))

\* df.select(col).unique() as a list of values.
Unique(s) == UniqueRec(s, <<>>)

Column(df, name) == [i \in 1..Len(df) |-> df[i][name]]

\* a.join(b, how='cross').
CrossJoin(a, b) ==
    [k \in 1..(Len(a) * Len(b)) |->
        <<a[((k - 1) \div Len(b)) + 1], b[((k - 1) % Len(b)) + 1]>>]

RECURSIVE Flatten(_)
Flatten(ss) == IF ss = <<>> THEN <<>> ELSE Head(ss) \o Flatten(Tail(ss))

\* The record r with the fields of extra added (or replaced).
With(r, extra) ==
    [f \in DOMAIN r \cup DOMAIN extra |->
        IF f \in DOMAIN extra THEN extra[f] ELSE r[f]]

\* The record r without the fields in drop.
Without(r, drop) == [f \in DOMAIN r \ drop |-> r[f]]

\* The calendar date of a timestamp: pl.col('date').dt.date().
DateOf(ts) == ts[1]

HourOf(ts) == ts[2]

TsBefore(a, b) == a[1] < b[1] \/ (a[1] = b[1] /\ a[2] <= b[2])

-----------------------------------------------------------------------------
(* convert_to_df.opt_create_proto_df, transform_to_training_data,           *)
(* opt_underlying_merge, option_data_to_polars                              *)

\* opt_create_proto_df (lines 108-121): the eight columns of every row.
ProtoColumns == {"date", "identifier", "callput", "strike", "h", "l", "o", "c"}

OptCreateProtoDf(rows) ==
    [i \in 1..Len(rows) |-> [f \in ProtoColumns |-> rows[i][f]]]

\* The left side of line 132: dates x identifiers (lines 126-130).
FullIndex(df) ==
    CrossJoin(Unique(Column(df, "date")), Unique(Column(df, "identifier")))

NullQuote(ts, id) ==
    [date |-> ts, identifier |-> id, callput |-> <<>>, strike |-> <<>>,
     h |-> <<>>, l |-> <<>>, o |-> <<>>, c |-> <<>>]

\* An inner join in place of the left join: index rows without a quote are lost.
InnerJoinQuotes(full_index, df) ==
    Flatten([k \in 1..Len(full_index) |->
        SelectSeq(df, LAMBDA r : r.date = full_index[k][1]
                                 /\ r.identifier = full_index[k][2])])

\* full_index.join(df, on=['date', 'identifier'], how='left') (line 132):
\* every index row once per matching quote, or once with null cells.
LeftJoinQuotes(full_index, df) ==
    Flatten([k \in 1..Len(full_index) |->
        LET hit == SelectSeq(df, LAMBDA r : r.date = full_index[k][1]
                                           /\ r.identifier = full_index[k][2])
        IN  IF hit = <<>>
            THEN <<NullQuote(full_index[k][1], full_index[k][2])>>
            ELSE hit])

\* str.extract(r"(\d+\.\d+)") of line 137: the leftmost digits "." digits,
\* each run as long as possible; <<>> when there is none.
DigitRunEnd(s, i) ==
    Max({j \in i..Len(s) : \A k \in i..j : IsDigit(s[k])})

DecimalAt(s, i) ==
    /\ IsDigit(s[i])
    /\ LET j == DigitRunEnd(s, i)
       IN  j + 2 <= Len(s) /\ s[j + 1] = "." /\ IsDigit(s[j + 2])

ExtractDecimal(s) ==
    IF \E i \in 1..Len(s) : DecimalAt(s, i)
    THEN LET i == Min({k \in 1..Len(s) : DecimalAt(s, k)})
             j == DigitRunEnd(s, i)
         IN  <<SubSeq(s, i, DigitRunEnd(s, j + 2))>>
    ELSE <<>>

RECURSIVE DigitsValue(_)
DigitsValue(s) ==
    IF s = <<>> THEN 0
    ELSE 10 * DigitsValue(SubSeq(s, 1, Len(s) - 1)) + DigitVal(s[Len(s)])

\* .cast(pl.Float64) of a matched decimal, in thousandths (the strikes of
\* the model have at most three decimals).
DecimalValue(text) ==
    LET dot == CHOOSE i \in 1..Len(text) : text[i] = "."
        frac == SubSeq(text, dot + 1, Len(text)) \o <<"0", "0", "0">>
    IN  1000 * DigitsValue(SubSeq(text, 1, dot - 1))
          + DigitsValue(SubSeq(frac, 1, 3))

\* str.extract(r"([CcPp])").str.to_uppercase() of line 142: the first of
\* the letters C, c, P, p anywhere in the identifier.
ExtractCallPut(s) ==
    LET hits == {i \in 1..Len(s) : s[i] \in {"C", "c", "P", "p"}}
    IN  IF hits = {} THEN <<>> ELSE <<Upper(s[Min(hits)])>>

\* with_columns of lines 135-148.
BackFill(filled_df) ==
    [k \in 1..Len(filled_df) |->
        LET r == filled_df[k]
            found == ExtractDecimal(r.identifier)
        IN  With(r, [strike |-> IF r.strike = <<>>
                                THEN (IF found = <<>> THEN <<>>
                                      ELSE <<DecimalValue(found[1])>>)
                                ELSE r.strike,
                     callput |-> IF r.callput = <<>>
                                 THEN ExtractCallPut(r.identifier)
                                 ELSE r.callput,
                     date_as_date |-> DateOf(r.date)])]

\* get_rate_at_date (lines 77-81) as one call on the caches (ir, rt) with
\* the treasury source src: the caches after it and its possible outcomes.
GetRateAtDate(ir, rt, src, timestamp_date, expiry_date) ==
    LET year == Year(timestamp_date)
        build == timestamp_date \notin DOMAIN rt
        load == build /\ year \notin DOMAIN ir
    IN  IF load /\ src[year] = Unreachable
        THEN [ir |-> ir, rt |-> rt, outs |-> {[kind |-> "ConnectionError"]}]
        ELSE
          LET ir1 == IF load THEN Put(ir, year, src[year]) ELSE ir
              rt1 == IF build
                     THEN CreateRateTable(rt, ir1[year], timestamp_date) ELSE rt
              rt2 == IF timestamp_date \in DOMAIN rt1 THEN rt1
                     ELSE Put(rt1, timestamp_date, EmptyMap)
          IN  IF build /\ CreateRaises(ir1[year]) # "none"
              THEN [ir |-> ir1, rt |-> rt1,
                    outs |-> {[kind |-> CreateRaises(ir1[year])]}]
              ELSE [ir |-> ir1, rt |-> rt2,
                    outs |-> CalculateRate(rt2[timestamp_date],
                                           expiry_date - timestamp_date)]

\* map_elements of lines 152-156: one get_rate_at_date per distinct date, in
\* turn; the first call that raises ends the transformation.
RECURSIVE RatesForDates(_, _, _, _, _)
RatesForDates(dates, ir, rt, src, expiry_date) ==
    IF dates = <<>>
    THEN {[ir |-> ir, rt |-> rt, kind |-> "ok", rates |-> EmptyMap]}
    ELSE LET g == GetRateAtDate(ir, rt, src, Head(dates), expiry_date)
         IN  UNION {
               IF out.kind # "rate"
               THEN {[ir |-> g.ir, rt |-> g.rt, kind |-> out.kind,
                      rates |-> EmptyMap]}
               ELSE {IF rest.kind = "ok"
                     THEN [rest EXCEPT !.rates = Put(@, Head(dates), out.value)]
                     ELSE rest :
                       rest \in RatesForDates(Tail(dates), g.ir, g.rt, src,
                                              expiry_date)} :
               out \in g.outs}

\* Lines 158-163: the date's rate on every row, and the time to expiry.  The
\* fractional day count is kept exact as a number of hours (days * 24).
AddRateAndExpiry(filled_df, rates, expiry_date) ==
    [k \in 1..Len(filled_df) |->
        With(filled_df[k],
             [risk_free_rate |-> rates[DateOf(filled_df[k].date)],
              time_to_expiry_days |->
                  24 * (expiry_date - DateOf(filled_df[k].date))
                    - HourOf(filled_df[k].date)])]

\* Lines 169-177: for every calendar date the first timestamp of the grid.
FirstTimestamps(filled_df) ==
    LET stamps == Column(filled_df, "date")
        days == Unique([i \in 1..Len(stamps) |-> DateOf(stamps[i])])
    IN  [i \in 1..Len(days) |->
            CHOOSE t \in Range(stamps) :
              /\ DateOf(t) = days[i]
              /\ \A u \in Range(stamps) : DateOf(u) = days[i] => TsBefore(t, u)]

\* Line 179: the first timestamps left-joined with the dividend events of
\* their calendar date.
FirstTimestampDividends(first_stamps, div_df) ==
    Flatten([i \in 1..Len(first_stamps) |->
        LET hit == SelectSeq(div_df,
                             LAMBDA e : e.date = DateOf(first_stamps[i]))
        IN  IF hit = <<>>
            THEN <<[date |-> first_stamps[i], dividend |-> <<>>]>>
            ELSE [j \in 1..Len(hit) |->
                    [date |-> first_stamps[i],
                     dividend |-> <<hit[j].dividend>>]]])

\* The dividend of a calendar date on every row of that date.
JoinDividendsByDay(filled_df, tmp_df) ==
    Flatten([k \in 1..Len(filled_df) |->
        LET hit == SelectSeq(tmp_df,
                             LAMBDA t : DateOf(t.date) = DateOf(filled_df[k].date))
        IN  IF hit = <<>>
            THEN <<With(filled_df[k], [dividend |-> 0])>>
            ELSE [j \in 1..Len(hit) |->
                    With(filled_df[k],
                         [dividend |-> IF hit[j].dividend = <<>> THEN 0
                                       ELSE hit[j].dividend[1]])]])

\* Lines 182-185: filled_df left-joined with tmp_df on the full timestamp
\* `date`, then fill_null(0).
JoinDividends(filled_df, tmp_df) ==
    Flatten([k \in 1..Len(filled_df) |->
        LET hit == SelectSeq(tmp_df, LAMBDA t : t.date = filled_df[k].date)
        IN  IF hit = <<>>
            THEN <<With(filled_df[k], [dividend |-> 0])>>
            ELSE [j \in 1..Len(hit) |->
                    With(filled_df[k],
                         [dividend |-> IF hit[j].dividend = <<>> THEN 0
                                       ELSE hit[j].dividend[1]])]])

\* opt_underlying_merge (lines 192-195): the underlying's OHLC, renamed,
\* left-joined on the timestamp.
OptUnderlyingMerge(df, prices) ==
    Flatten([k \in 1..Len(df) |->
        LET hit == SelectSeq(prices, LAMBDA u : u.date = df[k].date)
        IN  IF hit = <<>>
            THEN <<With(df[k], [ul_h |-> <<>>, ul_l |-> <<>>,
                                ul_o |-> <<>>, ul_c |-> <<>>])>>
            ELSE [j \in 1..Len(hit) |->
                    With(df[k], [ul_h |-> <<hit[j].h>>, ul_l |-> <<hit[j].l>>,
                                 ul_o |-> <<hit[j].o>>, ul_c |-> <<hit[j].c>>])]])

EnrichedColumns == {"risk_free_rate", "time_to_expiry_days", "dividend"}

UnderlyingColumns == {"ul_h", "ul_l", "ul_o", "ul_c"}

\* DividendDates.get_divs (lines 101-105) as one call on the cache dd, the
\* dividend service answering `history` for the symbol.
GetDivs(dd, symbol, history) ==
    IF symbol \in DOMAIN dd THEN dd ELSE Put(dd, symbol, history)

\* transform_to_training_data (lines 124-189): the possible outcomes, each
\* with the grid of line 132 and the caches as the call leaves them.
TransformToTrainingData(df, expiry_date, symbol, ir, rt, dd, src, history) ==
    LET grid0 == LeftJoinQuotes(FullIndex(df), df)
        filled1 == BackFill(grid0)
        days == Unique(Column(filled1, "date_as_date"))
    IN  { IF r.kind # "ok"
          THEN [kind |-> r.kind, rows |-> <<>>, grid |-> grid0,
                ir |-> r.ir, rt |-> r.rt, dd |-> dd]
          ELSE LET filled2 == AddRateAndExpiry(filled1, r.rates, expiry_date)
                   dd1 == GetDivs(dd, symbol, history)
                   div_df == dd1[symbol]
               IN  IF div_df = <<>>
                   \* pl.DataFrame([]) has no column `date` for line 166
                   THEN [kind |-> "ColumnNotFoundError", rows |-> <<>>,
                         grid |-> grid0, ir |-> r.ir, rt |-> r.rt, dd |-> dd1]
                   ELSE LET tmp_df == FirstTimestampDividends(
                                          FirstTimestamps(filled2), div_df)
                            filled3 == JoinDividends(filled2, tmp_df)
                        IN  [kind |-> "frame",
                             rows |-> [k \in 1..Len(filled3) |->
                                         Without(filled3[k], {"date_as_date"})],
                             grid |-> grid0, ir |-> r.ir, rt |-> r.rt,
                             dd |-> dd1] :
          r \in RatesForDates(days, ir, rt, src, expiry_date) }

\* The enrichment and the merge in every mode.
OptionDataToPolarsAnyMode(mode, rows, prices, table, ir, rt, dd, src, history) ==
    LET proto_df == OptCreateProtoDf(rows)
        tokens == Split(table)
        symbol == tokens[1]
        expiry == ParseDDMonYY(tokens[3])
    IN  IF expiry = NoDate
        THEN {[kind |-> "ValueError", rows |-> <<>>, grid |-> <<>>,
               ir |-> ir, rt |-> rt, dd |-> dd]}
        ELSE { IF t.kind = "frame"
               THEN [t EXCEPT !.rows = OptUnderlyingMerge(t.rows, prices)]
               ELSE t :
               t \in TransformToTrainingData(proto_df, expiry.day, symbol,
                                             ir, rt, dd, src, history) }

\* option_data_to_polars (lines 211-223).
OptionDataToPolars(mode, rows, prices, table, ir, rt, dd, src, history) ==
    LET proto_df == OptCreateProtoDf(rows)
        tokens == Split(table)
        symbol == tokens[1]
        expiry == ParseDDMonYY(tokens[3])
    IN  IF mode = "BACKUP"
        THEN {[kind |-> "frame", rows |-> proto_df, grid |-> <<>>,
               ir |-> ir, rt |-> rt, dd |-> dd]}
        ELSE IF expiry = NoDate
        THEN {[kind |-> "ValueError", rows |-> <<>>, grid |-> <<>>,
               ir |-> ir, rt |-> rt, dd |-> dd]}
        ELSE { IF t.kind = "frame"
               THEN [t EXCEPT !.rows = OptUnderlyingMerge(t.rows, prices)]
               ELSE t :
               t \in TransformToTrainingData(proto_df, expiry.day, symbol,
                                             ir, rt, dd, src, history) }

-----------------------------------------------------------------------------
(* SpecGrid: option_data_to_polars on the rows of one table                 *)

\* Rows a table may hand to one call.
MaxRows == 3

GridTable == SymAAPL \o Us \o OPT \o Us \o <<"1", "7", "J", "A", "N", "2", "5">>

IdCall == SymAAPL \o Us \o <<"2", "5", "0", ".", "0">> \o Us \o <<"C">>
            \o Us \o <<"1", "7", "J", "A", "N", "2", "5">>

IdPut == SymAAPL \o Us \o <<"2", "5", "5", ".", "5">> \o Us \o <<"P">>
            \o Us \o <<"1", "7", "J", "A", "N", "2", "5">>

\* Quote timestamps: two on 2025-01-01 (10h, 15h), one on 2025-01-02.
\* (date, identifier) is the primary key of an option table
\* (sql_request_data.py lines 40-41), so a table holds a key at most once.
KeyPool == << <<<<0, 15>>, IdPut>>, <<<<0, 10>>, IdCall>>, <<<<1, 10>>, IdPut>>,
              <<<<0, 10>>, IdPut>>, <<<<1, 10>>, IdCall>>, <<<<0, 15>>, IdCall>> >>

\* The quote a table holds under a key.
QuoteRow(key) ==
    LET p == 10 * (key[1][1] + 1) + key[1][2] + (IF key[2] = IdCall THEN 100 ELSE 0)
    IN  [date |-> key[1], identifier |-> key[2],
         callput |-> <<IF key[2] = IdCall THEN "C" ELSE "P">>,
         strike |-> <<IF key[2] = IdCall THEN 250000 ELSE 255500>>,
         h |-> <<p + 2>>, l |-> <<p - 1>>, o |-> <<p>>, c |-> <<p + 1>>]

UnderlyingRow(ts) ==
    LET p == 200 + 10 * ts[1] + ts[2]
    IN  [date |-> ts, h |-> p + 2, l |-> p - 1, o |-> p, c |-> p + 1]

\* The underlying's table (date is its primary key, lines 61-65).
UnderlyingPool ==
    { <<UnderlyingRow(<<0, 10>>), UnderlyingRow(<<0, 15>>), UnderlyingRow(<<1, 10>>)>>,
      <<UnderlyingRow(<<0, 10>>)>> }

\* Dividend histories the service may answer with.
DivPool ==
    { <<>>,
      <<[date |-> 0, dividend |-> 25]>>,
      <<[date |-> -30, dividend |-> 20], [date |-> 1, dividend |-> 30]>> }

InitGrid ==
    /\ InitCaches
    /\ rate_source = [y \in SourceYears |-> <<[date |-> 0, rates |-> CurveA]>>]
    /\ InitPlanOff
    /\ output_type \in {"BACKUP", "TRAINING"}
    /\ \E keys \in SUBSET Range(KeyPool) :
         /\ Cardinality(keys) \in 1..MaxRows
         /\ option_data = [i \in 1..Cardinality(keys) |->
                             QuoteRow(SelectSeq(KeyPool, LAMBDA k : k \in keys)[i])]
    /\ underlying_prices \in UnderlyingPool
    /\ div_history \in DivPool
    /\ grid = <<>>
    /\ result = Idle
    /\ phase = "input"

\* One call of option_data_to_polars(option_data, underlying_prices, table).
CallOptionDataToPolars ==
    /\ phase = "input"
    /\ \E out \in OptionDataToPolars(output_type, option_data, underlying_prices,
                                     GridTable, imported_rates, rate_table,
                                     div_date_data, rate_source, div_history) :
         /\ result' = [kind |-> out.kind, rows |-> out.rows]
         /\ grid' = out.grid
         /\ imported_rates' = out.ir
         /\ rate_table' = out.rt
         /\ div_date_data' = out.dd
    /\ phase' = "done"
    /\ UNCHANGED <<pc, arg, data, ret, calls, year_fetches, div_fetches,
                   rate_source, output_type, option_data, underlying_prices,
                   div_history, planVars>>

NextGrid == CallOptionDataToPolars

SpecGrid == InitGrid /\ [][NextGrid]_vars

-----------------------------------------------------------------------------
(* Claims about the grid and its enrichment *)

InputDates == Range(Column(option_data, "date"))

InputIdentifiers == Range(Column(option_data, "identifier"))

TrainingDone == phase = "done" /\ output_type = "TRAINING"

ResultRows == Range(result.rows)

\* C2: the densified grid holds every (date, identifier) pair of the input's
\* dates x identifiers exactly once: |dates| * |identifiers| rows, no pair
\* twice, no pair missing.
C2_DenseGridExactlyOnce ==
    TrainingDone =>
      /\ Len(grid) = Cardinality(InputDates) * Cardinality(InputIdentifiers)
      /\ \A d \in InputDates, i \in InputIdentifiers :
           Cardinality({k \in 1..Len(grid) :
                          grid[k].date = d /\ grid[k].identifier = i}) = 1

\* A sparse input (fewer quotes than pairs) over two dates and two
\* identifiers has been densified.
C2_Witness ==
    /\ TrainingDone
    /\ Cardinality(InputDates) >= 2
    /\ Cardinality(InputIdentifiers) >= 2
    /\ Len(option_data) < Len(grid)

\* The amounts of the history's events on the calendar date of timestamp ts.
DividendsOn(ts) ==
    {div_history[j].dividend :
       j \in {n \in 1..Len(div_history) : div_history[n].date = DateOf(ts)}}

\* ts is the first quote timestamp of its calendar date in the result.
IsFirstTimestamp(ts) ==
    \A r \in ResultRows : DateOf(r.date) = DateOf(ts) => TsBefore(ts, r.date)

C10_BackupIsMergedGrid ==
    (phase = "done" /\ result.kind = "frame") =>
      IF output_type = "BACKUP"
      THEN /\ Len(result.rows)
                = Cardinality(InputDates) * Cardinality(InputIdentifiers)
           /\ \A r \in ResultRows :
                DOMAIN r = ProtoColumns \cup UnderlyingColumns
      ELSE \A r \in ResultRows :
             DOMAIN r = ProtoColumns \cup EnrichedColumns \cup UnderlyingColumns

\* The underlying's close at timestamp ts, as the merge attaches it.
UnderlyingClose(ts) ==
    IF \E j \in 1..Len(underlying_prices) : underlying_prices[j].date = ts
    THEN <<underlying_prices[CHOOSE j \in 1..Len(underlying_prices) :
                               underlying_prices[j].date = ts].c>>
    ELSE <<>>

\* C10 (amended): BACKUP returns the fetched rows as they are (not
\* densified, not merged, not enriched); TRAINING returns one row per grid
\* row, each with the rate, time to expiry, dividend and the underlying's
\* prices of its timestamp (null without an underlying row).
C10_BackupIsRawRows ==
    (phase = "done" /\ result.kind = "frame") =>
      IF output_type = "BACKUP"
      THEN /\ result.rows = option_data
           /\ \A r \in ResultRows : DOMAIN r = ProtoColumns
      ELSE /\ Len(result.rows) = Len(grid)
           /\ \A r \in ResultRows :
                /\ DOMAIN r = ProtoColumns \cup EnrichedColumns
                                \cup UnderlyingColumns
                /\ r.ul_c = UnderlyingClose(r.date)

\* BACKUP on a sparse table: fewer rows than (date, identifier) pairs.
C10_Witness ==
    /\ phase = "done"
    /\ output_type = "BACKUP"
    /\ result.kind = "frame"
    /\ Len(result.rows) < Cardinality(InputDates) * Cardinality(InputIdentifiers)

\* The input holds a quote under the key of row r.
HasQuote(r) ==
    \E q \in Range(option_data) : q.date = r.date /\ q.identifier = r.identifier

\* The STRIKE token of an identifier SYMBOL_STRIKE_CP_EXPIRY, in thousandths.
StrikeToken(identifier) == DecimalValue(Split(identifier)[2])

\* The CP token of an identifier SYMBOL_STRIKE_CP_EXPIRY, in uppercase.
CallPutToken(identifier) == Upper(Split(identifier)[3][1])

\* C15: a grid row without quote (strike and callput null) gets the STRIKE
\* token of its identifier as strike and the CP token, in uppercase, as
\* callput, whatever the letters of the symbol; a row with a quote keeps the
\* quote's strike and callput.
C15_BackFillFromIdentifierTokens ==
    (TrainingDone /\ result.kind = "frame") =>
      \A r \in ResultRows :
        IF HasQuote(r)
        THEN \E q \in Range(option_data) :
               /\ q.date = r.date /\ q.identifier = r.identifier
               /\ r.strike = q.strike /\ r.callput = q.callput
        ELSE /\ r.strike = <<StrikeToken(r.identifier)>>
             /\ r.callput = <<CallPutToken(r.identifier)>>

-----------------------------------------------------------------------------
(* sql_request_data.filter_option_tables                                    *)

\* A dict (or defaultdict(list)) is the sequence of its <<key, value>>
\* entries in insertion order.
DictKeys(d) == [i \in 1..Len(d) |-> d[i][1]]

DictHas(d, k) == \E i \in 1..Len(d) : d[i][1] = k

DictGet(d, k) == d[CHOOSE i \in 1..Len(d) : d[i][1] = k][2]

\* defaultdict.__getitem__: reading a missing key inserts it with [].
DictTouch(d, k) == IF DictHas(d, k) THEN d ELSE Append(d, <<k, <<>>>>)

DictSet(d, k, v) == [i \in 1..Len(d) |-> IF d[i][1] = k THEN <<k, v>> ELSE d[i]]

DictPop(d, k) == SelectSeq(d, LAMBDA e : e[1] # k)

\* d[k].append(x) on a defaultdict(list).
DictAppend(d, k, x) ==
    LET d1 == DictTouch(d, k) IN DictSet(d1, k, Append(DictGet(d1, k), x))

OptMarker == Us \o OPT \o Us

StkMarker == Us \o <<"S", "T", "K">>

ArrowSuffix == <<".", "a", "r", "r", "o", "w">>

\* DataCreationConfig.TRAINING_EXPORT_DIR, BACKUP_EXPORT_DIR (lines 12-13).
TrainingExportDir ==
    <<"t", "r", "a", "i", "n", "i", "n", "g", "_", "d", "a", "t", "a">>

BackupExportDir == <<"b", "a", "c", "k", "u", "p", "_", "d", "a", "t", "a">>

\* DataCreationConfig.TRAIN_IGNORE_FOLDERS.split(',') (line 23).
TrainIgnoreFolders == {<<"V", "e", "r", "g", "l", "e", "i", "c", "h">>}

\* Lines 168 and 234.
Subfolder(mode) ==
    IF mode = "TRAINING" THEN TrainingExportDir ELSE BackupExportDir

\* The directory write_df_to_file writes a database's tables to (line 236),
\* as os.walk names it (line 170) when run from the script's directory.
ExportRoot(mode, database) == Subfolder(mode) \o <<"/">> \o database

\* datetime.now(), and DataCreationConfig.START_DATE (line 16).
Now == DayOf(2025, 3, 1)

StartDate == DayOf(2024, 8, 1)

\* Lines 149-155 with HISTORY_ONLY (line 15): the window of expiry dates.
CutoffDateMax == Now - 5

CutoffDateMin == StartDate

\* Lines 157-164 for the tables of one database, in turn; the dicts so far
\* are acc.opt and acc.stk; a table name whose third token is no date makes
\* strptime raise (acc.kind becomes "ValueError").
RECURSIVE ClassifyTables(_, _, _)
ClassifyTables(database, tables, acc) ==
    IF tables = <<>> \/ acc.kind # "ok" THEN acc
    ELSE
      LET table == Head(tables)
          is_opt == Contains(OptMarker, table)
          date == IF is_opt THEN ParseDDMonYY(Split(table)[3]) ELSE NoDate
          opt1 == IF /\ is_opt /\ date # NoDate
                     /\ CutoffDateMin <= date.day /\ date.day <= CutoffDateMax
                  THEN DictAppend(acc.opt, database, table) ELSE acc.opt
          stk1 == IF Contains(StkMarker, database)
                  THEN DictAppend(acc.stk, database, table) ELSE acc.stk
      IN  IF is_opt /\ date = NoDate
          THEN [acc EXCEPT !.kind = "ValueError"]
          ELSE ClassifyTables(database, Tail(tables),
                              [kind |-> "ok", opt |-> opt1, stk |-> stk1])

RECURSIVE ClassifyDatabases(_, _)
ClassifyDatabases(catalog, acc) ==
    IF catalog = <<>> \/ acc.kind # "ok" THEN acc
    ELSE ClassifyDatabases(Tail(catalog),
                           ClassifyTables(Head(catalog)[1], Head(catalog)[2], acc))

\* Lines 166-174: the names of the tables that count as materialized.
ExistingTables(refresh, mode, disk) ==
    IF ~refresh THEN {}
    ELSE { RStrip(f[2], Range(ArrowSuffix)) :
             f \in { g \in disk :
                       /\ SubSeq(g[1], 1, Len(Subfolder(mode))) = Subfolder(mode)
                       /\ EndsWith(g[2], ArrowSuffix)
                       /\ ~ \E x \in TrainIgnoreFolders : Contains(x, g[1]) } }

\* Lines 176-181: every group's tables that are not materialized, as work items.
WorkItems(opt, existing_tables) ==
    [i \in 1..Len(opt) |->
        <<opt[i][1],
          LET keep == SelectSeq(opt[i][2], LAMBDA t : t \notin existing_tables)
          IN  [j \in 1..Len(keep) |-> [query_db |-> opt[i][1], table |-> keep[j]]]>>]

\* Lines 188-189 for one add_key.
MergeInto(d, lk, add_key) ==
    LET d1 == DictTouch(d, lk)
        d2 == DictTouch(d1, add_key)
        d3 == DictSet(d2, lk, DictGet(d2, lk) \o DictGet(d2, add_key))
    IN  DictPop(d3, add_key)

RECURSIVE MergeEach(_, _, _)
MergeEach(d, lk, to_add) ==
    IF to_add = <<>> THEN d
    ELSE MergeEach(MergeInto(d, lk, Head(to_add)), lk, Tail(to_add))

\* Lines 184-189: the loop runs over the keys as they were before the merge.
RECURSIVE MergeSplitMonths(_, _, _)
MergeSplitMonths(d, opt_data_keys, i) ==
    IF i > Len(opt_data_keys) THEN d
    ELSE
      LET lk == opt_data_keys[i]
          to_add == SelectSeq(SubSeq(opt_data_keys, i + 1, Len(opt_data_keys)),
                              LAMBDA k : Split(lk)[3] = Split(k)[3])
      IN  MergeSplitMonths(MergeEach(d, lk, to_add), opt_data_keys, i + 1)

\* filter_option_tables (lines 146-191).
FilterOptionTables(catalog, refresh, mode, disk) ==
    LET c == ClassifyDatabases(catalog, [kind |-> "ok", opt |-> <<>>, stk |-> <<>>])
    IN  IF c.kind # "ok" THEN [kind |-> c.kind, stk |-> <<>>, opt |-> <<>>]
        ELSE LET items == WorkItems(c.opt, ExistingTables(refresh, mode, disk))
             IN  [kind |-> "ok", stk |-> c.stk,
                  opt |-> MergeSplitMonths(items, DictKeys(items), 1)]

-----------------------------------------------------------------------------
(* sql_request_data.process_stock_data, process_option_data, controller     *)

\* DataCreationConfig.REFRESH_DATA (line 17).
RefreshData == TRUE

StockDatabase == <<"D", "a", "t", "a">> \o StkMarker

QueryConstituents ==
    <<"Q", "u", "e", "r", "y", "_", "C", "o", "n", "s", "t", "i", "t", "u",
      "e", "n", "t", "s">>

\* process_stock_data (lines 207-229): the symbols that get a frame.  The
\* tables are those listed for the database 'Data_STK'; a table whose fetch
\* fails or yields no rows is passed over.
ProcessStockData(stk, rows_of) ==
    LET tables == IF DictHas(stk, StockDatabase)
                  THEN Range(DictGet(stk, StockDatabase)) ELSE {}
    IN  { Split(t)[1] : t \in { u \in tables :
                                  /\ u # QueryConstituents
                                  /\ rows_of[<<StockDatabase, u>>] = "rows" } }

\* sorted(keys, key=strptime(x.split('_')[2], '%b%y')) (line 253): stable.
RECURSIVE SortByMonth(_)
SortByMonth(keys) ==
    IF keys = <<>> THEN <<>>
    ELSE LET rest == SortByMonth(SubSeq(keys, 1, Len(keys) - 1))
             k == keys[Len(keys)]
             day(x) == ParseMonYY(Split(x)[3]).day
             before == SelectSeq(rest, LAMBDA x : day(x) <= day(k))
             after == SelectSeq(rest, LAMBDA x : day(x) > day(k))
         IN  before \o <<k>> \o after

\* The work items of process_option_data's two loops (lines 255-261), in
\* the order it takes them, each with the group (database) it is filed under.
WorkList(opt) ==
    LET ordered_tables == SortByMonth(DictKeys(opt))
    IN  Flatten([i \in 1..Len(ordered_tables) |->
          LET tables == DictGet(opt, ordered_tables[i])
          IN  [j \in 1..Len(tables) |->
                 [database |-> ordered_tables[i],
                  query_db |-> tables[j].query_db,
                  table |-> tables[j].table]]])

\* The file write_df_to_file creates (lines 234-243).
ArtifactOf(mode, database, table) ==
    <<ExportRoot(mode, database), table \o ArrowSuffix>>

\* Pipeline runs of one behaviour.
MaxRuns == 2

\* Tables of the source catalog.
MaxTables == 3

DataOpt == <<"D", "a", "t", "a">> \o Us \o OPT \o Us

DbJan25 == DataOpt \o <<"J", "a", "n", "2", "5">>

DbJan25_1 == DbJan25 \o Us \o <<"1">>

DbJan25_2 == DbJan25 \o Us \o <<"2">>

DbFeb25 == DataOpt \o <<"F", "e", "b", "2", "5">>

DbJul24 == DataOpt \o <<"J", "u", "l", "2", "4">>

OptTable(symbol, expiry) == symbol \o Us \o OPT \o Us \o expiry

\* The option tables the source may hold, each with its database: three
\* January tables in split databases, one of another symbol, a February
\* table and one with a suffix, one whose third token is no date, and one
\* that expired before START_DATE.
TablePool ==
    << <<DbJan25, OptTable(SymAAPL, <<"1", "7", "J", "A", "N", "2", "5">>)>>,
       <<DbJan25, OptTable(SymMSFT, <<"1", "7", "J", "A", "N", "2", "5">>)>>,
       <<DbJan25_1, OptTable(SymAAPL, <<"2", "4", "J", "A", "N", "2", "5">>)>>,
       <<DbJan25_2, OptTable(SymAAPL, <<"3", "1", "J", "A", "N", "2", "5">>)>>,
       <<DbFeb25, OptTable(SymAAPL, <<"2", "1", "F", "E", "B", "2", "5">>)>>,
       <<DbFeb25, OptTable(SymAAPL, <<"2", "1", "F", "E", "B", "2", "5">>)
                    \o Us \o <<"w">>>>,
       <<DbFeb25, OptTable(SymAAPL, <<"B", "A", "D">>)>>,
       <<DbJul24, OptTable(SymAAPL, <<"1", "9", "J", "U", "L", "2", "4">>)>> >>

DatabaseOrder == <<DbJan25, DbJan25_1, DbJan25_2, DbFeb25, DbJul24>>

StockTable(symbol) == symbol \o StkMarker

StockPool == { <<StockTable(SymAAPL)>>, <<StockTable(SymAAPL), StockTable(SymMSFT)>> }

\* What a fetch of a table yields: rows that assemble, rows on which
\* option_data_to_polars raises, no rows, or an InvalidRequestError.
RowStatus == {"rows", "raising", "empty", "InvalidRequestError"}

\* A file of an earlier export kept in a folder of the ignore list.
IgnoredArtifact ==
    <<TrainingExportDir \o <<"/">> \o <<"V", "e", "r", "g", "l", "e", "i", "c", "h">>,
      TablePool[1][2] \o ArrowSuffix>>

InitPlan ==
    /\ InitCaches
    /\ rate_source = [y \in SourceYears |-> <<[date |-> 0, rates |-> CurveA]>>]
    /\ InitGridOff
    /\ \E chosen \in SUBSET Range(TablePool), stock \in StockPool :
         /\ Cardinality(chosen) <= MaxTables
         /\ sql_server =
              [i \in 1..Len(DatabaseOrder) |->
                 <<DatabaseOrder[i],
                   LET mine == SelectSeq(TablePool,
                                 LAMBDA e : e \in chosen /\ e[1] = DatabaseOrder[i])
                   IN  [j \in 1..Len(mine) |-> mine[j][2]]>>]
              \o << <<StockDatabase, stock>> >>
         /\ \E odd \in chosen \cup {<<>>}, status \in RowStatus :
              source_rows =
                [e \in Range(TablePool)
                         \cup {<<StockDatabase, t>> : t \in Range(stock)} |->
                    IF e = odd THEN status ELSE "rows"]
    /\ files \in {{}, {IgnoredArtifact}}
    /\ plan = <<>>
    /\ stk_plan = <<>>
    /\ stk_dfs = {}
    /\ cursor = 1
    /\ step = "start"
    /\ run = 1
    /\ written = {}
    /\ skipped = {}
    /\ aborts = 0

\* controller, line 305: fot = filter_option_tables(sql_server).
Filter ==
    /\ step = "start"
    /\ LET fot == FilterOptionTables(sql_server, RefreshData, output_type, files)
       IN  IF fot.kind = "ok"
           THEN /\ stk_plan' = fot.stk
                /\ plan' = fot.opt
                /\ step' = "stock"
           ELSE /\ step' = "filter_raised"
                /\ UNCHANGED <<stk_plan, plan>>
    /\ UNCHANGED <<rateVars, gridVars, sql_server, source_rows, files, stk_dfs,
                   cursor, run, written, skipped, aborts>>

\* controller, line 309: stk_dfs = process_stock_data(conn_str, sql_server_stk).
StockData ==
    /\ step = "stock"
    /\ stk_dfs' = ProcessStockData(stk_plan, source_rows)
    /\ cursor' = 1
    /\ step' = "options"
    /\ UNCHANGED <<rateVars, gridVars, sql_server, source_rows, files, plan,
                   stk_plan, run, written, skipped, aborts>>

\* process_option_data, lines 259-285, and write_df_to_file up to line 241:
\* one work item is fetched and assembled, and its artifact is opened for
\* writing under its final name (mode 'wb' creates or truncates the file).
\* The status "raising" is a table on whose rows option_data_to_polars
\* raises (the treasury or dividend service fails for it); nothing around
\* line 280 catches that, nor the KeyError of stk_dfs[...].
ProcessOptionItem ==
    /\ step = "options"
    /\ cursor <= Len(WorkList(plan))
    /\ LET item == WorkList(plan)[cursor]
           status == source_rows[<<item.query_db, item.table>>]
       IN  IF status \in {"InvalidRequestError", "empty"}
           \* lines 266-273: continue
           THEN /\ skipped' = skipped \cup {item.table}
                /\ cursor' = cursor + 1
                /\ UNCHANGED <<files, written, step>>
           ELSE IF Split(item.table)[1] \notin stk_dfs \/ status = "raising"
           \* line 280: KeyError of stk_dfs[...], or option_data_to_polars raises
           THEN /\ step' = "process_raised"
                /\ UNCHANGED <<files, written, skipped, cursor>>
           \* line 285 and lines 234-241: the artifact exists, still incomplete
           ELSE /\ files' = files \cup
                      {ArtifactOf(output_type, item.database, item.table)}
                /\ written' = written \ {item.table}
                /\ step' = "writing"
                /\ UNCHANGED <<skipped, cursor>>
    /\ UNCHANGED <<rateVars, gridVars, sql_server, source_rows, plan, stk_plan,
                   stk_dfs, run, aborts>>

\* write_df_to_file, lines 242-243: the table is written and the file closed.
WriteTable ==
    /\ step = "writing"
    /\ written' = written \cup {WorkList(plan)[cursor].table}
    /\ cursor' = cursor + 1
    /\ step' = "options"
    /\ UNCHANGED <<rateVars, gridVars, sql_server, source_rows, files, plan,
                   stk_plan, stk_dfs, run, skipped, aborts>>

\* process_option_data returns: the run is complete.
FinishRun ==
    /\ step = "options"
    /\ cursor > Len(WorkList(plan))
    /\ step' = "done"
    /\ UNCHANGED <<rateVars, gridVars, sql_server, source_rows, files, plan,
                   stk_plan, stk_dfs, cursor, run, written, skipped, aborts>>

\* The process is killed while controller runs (lines 298-311): what it
\* wrote to the export directory stays as it is.
Abort ==
    /\ step \in {"start", "stock", "options", "writing"}
    /\ step' = "aborted"
    /\ aborts' = aborts + 1
    /\ UNCHANGED <<rateVars, gridVars, sql_server, source_rows, files, plan,
                   stk_plan, stk_dfs, cursor, run, written, skipped>>

\* The pipeline is started again on the same catalog and export directory.
StartNextRun ==
    /\ step \in {"done", "aborted"}
    /\ run < MaxRuns
    /\ run' = run + 1
    /\ step' = "start"
    /\ plan' = <<>>
    /\ stk_plan' = <<>>
    /\ stk_dfs' = {}
    /\ cursor' = 1
    /\ UNCHANGED <<rateVars, gridVars, sql_server, source_rows, files, written,
                   skipped, aborts>>

NextPlan ==
    \/ Filter
    \/ StockData
    \/ ProcessOptionItem
    \/ WriteTable
    \/ FinishRun
    \/ Abort
    \/ StartNextRun

SpecPlan == InitPlan /\ [][NextPlan]_vars

-----------------------------------------------------------------------------
(* Claims about the planner *)

\* filter_option_tables has returned in this run.
Planned == step \in {"stock", "options", "writing", "done"}

PlannedItems == UNION {Range(plan[i][2]) : i \in 1..Len(plan)}

\* C6: after a full first run, the plan of a second run over the same
\* catalog holds no work item.
C6_SecondPlanEmpty ==
    (run >= 2 /\ aborts = 0 /\ Planned) => PlannedItems = {}

\* The groups before the split-month merge, while the export directory is
\* as filter_option_tables saw it.
GroupsBeforeMerge ==
    WorkItems(ClassifyDatabases(sql_server,
                                [kind |-> "ok", opt |-> <<>>, stk |-> <<>>]).opt,
              ExistingTables(RefreshData, output_type, files))

SameExpiry(k1, k2) == Split(k1)[3] = Split(k2)[3]

\* C7: of the groups that share an expiry token only the earliest remains;
\* it holds every work item of all of them exactly once, and no later
\* group's key remains, not even with an empty list.
C7_OneGroupPerExpiry ==
    (run = 1 /\ step = "stock") =>
      LET before == GroupsBeforeMerge IN
      \A i \in 1..Len(before) :
        LET k == before[i][1]
            same == {j \in 1..Len(before) : SameExpiry(before[j][1], k)}
        IN  IF i = Min(same)
            THEN /\ DictHas(plan, k)
                 /\ Len(DictGet(plan, k))
                      = Len(Flatten([j \in 1..Len(before) |->
                              IF j \in same THEN before[j][2] ELSE <<>>]))
                 /\ \A j \in same : \A item \in Range(before[j][2]) :
                      Cardinality({n \in 1..Len(DictGet(plan, k)) :
                                     DictGet(plan, k)[n] = item}) = 1
            ELSE ~DictHas(plan, k)

\* The table's name follows the convention and its expiry is inside the window.
InWindow(table) ==
    /\ Contains(OptMarker, table)
    /\ ParseDDMonYY(Split(table)[3]) # NoDate
    /\ CutoffDateMin <= ParseDDMonYY(Split(table)[3]).day
    /\ ParseDDMonYY(Split(table)[3]).day <= CutoffDateMax

\* C8: a table name that has the option marker but no date as its third
\* token does not make filter_option_tables fail: the first run plans every
\* well-formed table inside the window.
C8_MalformedNameSkipped ==
    (run = 1 /\ step \notin {"start", "aborted"}) =>
      /\ step # "filter_raised"
      /\ \A i \in 1..Len(sql_server) : \A t \in Range(sql_server[i][2]) :
           InWindow(t) => [query_db |-> sql_server[i][1], table |-> t] \in PlannedItems

\* The tables of the work list after the one the cursor is on.
LaterItems == {WorkList(plan)[i] : i \in (cursor + 1)..Len(WorkList(plan))}

\* C11: a failure while one work item is processed (its quotes, the rate
\* curve, the dividends, or no price table of its symbol) does not end
\* process_option_data: every later work item of the plan is still
\* fetched, and written unless it is skipped itself.
C11_FailureSkipsOneItem ==
    (run = 1 /\ step = "process_raised") =>
      \A item \in LaterItems : item.table \in written \cup skipped

\* The skip check of filter_option_tables counts the table as existing.
CountedAsExisting(table) ==
    table \in ExistingTables(RefreshData, output_type, files)

\* C13: an artifact the skip check counts as existing holds the complete
\* table, also after a run was killed while write_df_to_file was writing:
\* the next plan never leaves out a table whose artifact is incomplete.
C13_SkippedArtifactIsComplete ==
    (run >= 2 /\ step = "stock") =>
      \A i \in 1..Len(sql_server) : \A t \in Range(sql_server[i][2]) :
        (/\ InWindow(t)
         /\ CountedAsExisting(t)
         /\ [query_db |-> sql_server[i][1], table |-> t] \notin PlannedItems) =>
          t \in written

====
